---- MODULE Spec2Model ----
(***************************************************************************)
(* A model of the BibleDatabase client of python/bible_db.py: the          *)
(* reference parser (_parse_reference), the verse lookup (get_verses),     *)
(* the translation listing (get_available_translations) and the            *)
(* connection handling they rest on (connect, disconnect,                  *)
(* ensure_connected, get_cursor, and the with-block's __enter__ and        *)
(* __exit__).                                                              *)
(*                                                                         *)
(* A Python str is modelled as a sequence of one-character strings, so     *)
(* that rsplit, split, strip, int(), the format specs and upper() are      *)
(* computed character by character as Python computes them.                *)
(***************************************************************************)
EXTENDS Integers, Sequences, FiniteSets, TLC

(***************************************************************************)
(* Bounds of the model.                                                    *)
(***************************************************************************)
\* Leading zeros the generated chapter and verse tokens carry at most.
MaxPad == 1
\* Connections one client opens at most in a behaviour.
MaxHandles == 2

(***************************************************************************)
(* Characters and Python's str methods.                                    *)
(***************************************************************************)
Digits == <<"0", "1", "2", "3", "4", "5", "6", "7", "8", "9">>

LowerCase == <<"a", "b", "c", "d", "e", "f", "g", "h", "i", "j", "k", "l", "m",
               "n", "o", "p", "q", "r", "s", "t", "u", "v", "w", "x", "y", "z">>

UpperCase == <<"A", "B", "C", "D", "E", "F", "G", "H", "I", "J", "K", "L", "M",
               "N", "O", "P", "Q", "R", "S", "T", "U", "V", "W", "X", "Y", "Z">>

Range(s) == {s[i] : i \in DOMAIN s}

IsDigit(c) == c \in Range(Digits)

IsLetter(c) == c \in Range(LowerCase) \cup Range(UpperCase)

DigitVal(c) == (CHOOSE i \in DOMAIN Digits : Digits[i] = c) - 1

\* The whitespace str.strip() and int() drop; of Python's whitespace the
\* model's alphabet holds the space and the tab.
IsSpace(c) == c \in {" ", "\t"}

RECURSIVE LStrip(_)
LStrip(s) == IF s # <<>> /\ IsSpace(Head(s)) THEN LStrip(Tail(s)) ELSE s

RECURSIVE RStrip(_)
RStrip(s) ==
    IF s # <<>> /\ IsSpace(s[Len(s)]) THEN RStrip(SubSeq(s, 1, Len(s) - 1)) ELSE s

\* str.strip()
Strip(s) == RStrip(LStrip(s))

\* c in s
Contains(s, c) == \E i \in DOMAIN s : s[i] = c

\* s.split(c, 1) of a string that contains c: the text before and after
\* the first c.
SplitFirst(s, c) ==
    LET i == CHOOSE k \in DOMAIN s : s[k] = c /\ \A j \in 1..(k - 1) : s[j] # c
    IN  <<SubSeq(s, 1, i - 1), SubSeq(s, i + 1, Len(s))>>

\* s.rsplit(c, 1): one part when s holds no c, else the text before and
\* after the last c.
RSplitLast(s, c) ==
    IF ~Contains(s, c) THEN <<s>>
    ELSE LET i == CHOOSE k \in DOMAIN s :
                      s[k] = c /\ \A j \in (k + 1)..Len(s) : s[j] # c
         IN  <<SubSeq(s, 1, i - 1), SubSeq(s, i + 1, Len(s))>>

ToUpper(c) ==
    IF c \in Range(LowerCase)
    THEN UpperCase[CHOOSE i \in DOMAIN LowerCase : LowerCase[i] = c]
    ELSE c

\* str.upper()
Upper(s) == [i \in DOMAIN s |-> ToUpper(s[i])]

\* str.isidentifier(): not empty, a letter or underscore first, then
\* letters, digits and underscores.
IsIdentifier(s) ==
    /\ s # <<>>
    /\ IsLetter(s[1]) \/ s[1] = "_"
    /\ \A i \in DOMAIN s : IsLetter(s[i]) \/ IsDigit(s[i]) \/ s[i] = "_"

(***************************************************************************)
(* int(s): surrounding whitespace is dropped, one sign is allowed, then    *)
(* digits with single underscores between them.  ok is FALSE where Python  *)
(* raises ValueError.                                                      *)
(***************************************************************************)
RECURSIVE DigitsValue(_, _)
DigitsValue(s, acc) ==
    IF s = <<>> THEN acc
    ELSE IF Head(s) = "_" THEN DigitsValue(Tail(s), acc)
    ELSE DigitsValue(Tail(s), acc * 10 + DigitVal(Head(s)))

IntLiteralBody(s) ==
    /\ s # <<>>
    /\ IsDigit(s[1])
    /\ IsDigit(s[Len(s)])
    /\ \A i \in DOMAIN s : IsDigit(s[i]) \/ s[i] = "_"
    /\ \A i \in 1..(Len(s) - 1) : ~(s[i] = "_" /\ s[i + 1] = "_")

\* PyInt taking the empty token for 0.
PyInt_EmptyIsZero(s) ==
    LET t == Strip(s)
        signed == t # <<>> /\ t[1] \in {"+", "-"}
        body == IF signed THEN Tail(t) ELSE t
    IN  IF t = <<>> THEN [ok |-> TRUE, val |-> 0]
        ELSE IF ~IntLiteralBody(body) THEN [ok |-> FALSE, val |-> 0]
        ELSE [ok |-> TRUE,
              val |-> IF signed /\ t[1] = "-" THEN 0 - DigitsValue(body, 0)
                      ELSE DigitsValue(body, 0)]

PyInt(s) ==
    LET t == Strip(s)
        signed == t # <<>> /\ t[1] \in {"+", "-"}
        body == IF signed THEN Tail(t) ELSE t
    IN  IF ~IntLiteralBody(body) THEN [ok |-> FALSE, val |-> 0]
        ELSE [ok |-> TRUE,
              val |-> IF signed /\ t[1] = "-" THEN 0 - DigitsValue(body, 0)
                      ELSE DigitsValue(body, 0)]

(***************************************************************************)
(* The format spec 0<w>d: the decimal digits, zero-padded to w characters; *)
(* the sign of a negative number counts as one of the w characters.        *)
(***************************************************************************)
RECURSIVE DecDigits(_)
DecDigits(n) ==
    IF n < 10 THEN <<Digits[n + 1]>>
    ELSE DecDigits(n \div 10) \o <<Digits[(n % 10) + 1]>>

RECURSIVE ZeroFill(_, _)
ZeroFill(d, w) == IF Len(d) >= w THEN d ELSE ZeroFill(<<"0">> \o d, w)

\* FormatD without the zero padding: the format spec d.
FormatD_Unpadded(n, w) ==
    IF n < 0 THEN <<"-">> \o DecDigits(0 - n) ELSE DecDigits(n)

FormatD(n, w) ==
    IF n < 0 THEN <<"-">> \o ZeroFill(DecDigits(0 - n), w - 1)
    ELSE ZeroFill(DecDigits(n), w)

(***************************************************************************)
(* The fixed-width key: _parse_reference's return expression.              *)
(***************************************************************************)
\* MakeKey with the chapter padded to two digits and the book to three.
MakeKey_WidthsSwapped(book_number, ch, vs) ==
    FormatD(book_number, 3) \o FormatD(ch, 2) \o FormatD(vs, 3)

\* f"{book_number:02d}{int(chapter):03d}{int(verse):03d}"
MakeKey(book_number, ch, vs) ==
    FormatD(book_number, 2) \o FormatD(ch, 3) \o FormatD(vs, 3)

\* The chapter of a side of a range: the text before its first ':', or the
\* default when the side has none ('1' for the start, the start's chapter
\* for the end).
SideChapter(side, default) ==
    IF Contains(side, ":") THEN SplitFirst(side, ":")[1] ELSE default

\* The verse of a side of a range.
SideVerse(side) ==
    IF Contains(side, ":") THEN SplitFirst(side, ":")[2] ELSE Strip(side)

\* RangeTokens with the end chapter defaulting to '1', as the start does.
RangeTokens_EndDefaultsToOne(start, end) ==
    [start_chapter |-> SideChapter(start, <<"1">>),
     start_verse |-> SideVerse(start),
     end_chapter |-> SideChapter(end, <<"1">>),
     end_verse |-> SideVerse(end)]

\* RangeTokens with the end chapter always the start's.
RangeTokens_EndChapterOfStart(start, end) ==
    [start_chapter |-> SideChapter(start, <<"1">>),
     start_verse |-> SideVerse(start),
     end_chapter |-> SideChapter(start, <<"1">>),
     end_verse |-> SideVerse(end)]

\* The tokens of a range, start and end being the text around the first
\* '-'.
RangeTokens(start, end) ==
    [start_chapter |-> SideChapter(start, <<"1">>),
     start_verse |-> SideVerse(start),
     end_chapter |-> SideChapter(end, SideChapter(start, <<"1">>)),
     end_verse |-> SideVerse(end)]

\* The tokens of a reference that is no range.
PointTokens(chapter_verse) ==
    IF Contains(chapter_verse, ":")
    THEN [start_chapter |-> Strip(SplitFirst(chapter_verse, ":")[1]),
          start_verse |-> Strip(SplitFirst(chapter_verse, ":")[2]),
          end_chapter |-> Strip(SplitFirst(chapter_verse, ":")[1]),
          end_verse |-> Strip(SplitFirst(chapter_verse, ":")[2])]
    ELSE [start_chapter |-> <<"1">>,
          start_verse |-> Strip(chapter_verse),
          end_chapter |-> <<"1">>,
          end_verse |-> Strip(chapter_verse)]

\* The four tokens _parse_reference cuts the chapter/verse portion into.
CitationTokens(chapter_verse) ==
    IF Contains(chapter_verse, "-")
    THEN RangeTokens(SplitFirst(chapter_verse, "-")[1],
                     SplitFirst(chapter_verse, "-")[2])
    ELSE PointTokens(chapter_verse)

\* KeyPair refusing a range whose end comes before its start.
KeyPair_OrderChecked(book_number, sc, sv, ec, ev) ==
    IF sc.ok /\ sv.ok /\ ec.ok /\ ev.ok
       /\ (ec.val > sc.val \/ (ec.val = sc.val /\ ev.val >= sv.val))
    THEN [exc |-> "none",
          start_ref |-> MakeKey(book_number, sc.val, sv.val),
          end_ref |-> MakeKey(book_number, ec.val, ev.val)]
    ELSE [exc |-> "InvalidLiteral", start_ref |-> <<>>, end_ref |-> <<>>]

\* The return expression over the four int() results: the key pair, or
\* the ValueError of an int() that rejects its token.
KeyPair(book_number, sc, sv, ec, ev) ==
    IF sc.ok /\ sv.ok /\ ec.ok /\ ev.ok
    THEN [exc |-> "none",
          start_ref |-> MakeKey(book_number, sc.val, sv.val),
          end_ref |-> MakeKey(book_number, ec.val, ev.val)]
    ELSE [exc |-> "InvalidLiteral", start_ref |-> <<>>, end_ref |-> <<>>]

KeysOf(book_number, t) ==
    KeyPair(book_number, PyInt(t.start_chapter), PyInt(t.start_verse),
            PyInt(t.end_chapter), PyInt(t.end_verse))

\* The part of _parse_reference after the book lookup.
ParseCitation(book_number, chapter_verse) ==
    KeysOf(book_number, CitationTokens(chapter_verse))

(***************************************************************************)
(* The store behind the client: the book index, the translation directory  *)
(* and one verse table per translation, read-only.                         *)
(***************************************************************************)
\* key_abbreviations_english: column a (abbreviation) to column b (number).
BookIndex ==
    (<<"J", "o", "h", "n">> :> 43) @@ (<<"J", "u", "d", "e">> :> 65)
    @@ (<<"1", " ", "K", "i">> :> 11) @@ (<<"G", "e", "n">> :> 1)

\* bible_version_key: the rows' abbreviation and table columns.  The last
\* two rows are rows a directory may hold: a table name that is no
\* identifier, and one that starts with a digit.
TranslationDirectory ==
    << [abbreviation |-> <<"K", "J", "V">>, table |-> <<"t", "_", "k", "j", "v">>],
       [abbreviation |-> <<"W", "E", "B">>, table |-> <<"t", "_", "w", "e", "b">>],
       [abbreviation |-> <<"B", "A", "D">>, table |-> <<"t", ";", "x">>],
       [abbreviation |-> <<"N", "1">>, table |-> <<"1", "t">>] >>

\* The verse tables: the ids (BBCCCVVV as a number) of the rows each holds.
VerseTables ==
    (<<"t", "_", "k", "j", "v">> :>
        {1001001, 11001001, 43003016, 43003017, 43003018, 43003036,
         43004001, 43004002, 43004003, 43004016, 65001005, 65001013})
    @@ (<<"t", "_", "w", "e", "b">> :> {43003016, 43003017, 65001005})

\* The number the store compares an id with when handed the string s: the
\* value of its leading digits.
RECURSIVE LeadingDigits(_)
LeadingDigits(s) ==
    IF s # <<>> /\ IsDigit(Head(s)) THEN <<Head(s)>> \o LeadingDigits(Tail(s))
    ELSE <<>>

KeyNumber(s) == DigitsValue(LeadingDigits(s), 0)

\* RowsBetween with both bounds exclusive.
RowsBetween_Exclusive(table, lo, hi) ==
    {id \in VerseTables[table] : id > KeyNumber(lo) /\ id < KeyNumber(hi)}

\* WHERE id >= ? AND id <= ?
RowsBetween(table, lo, hi) ==
    {id \in VerseTables[table] : id >= KeyNumber(lo) /\ id <= KeyNumber(hi)}

\* fetchone() of the directory lookup: the first row with the abbreviation.
DirectoryRow(abbreviation) ==
    LET hits == {i \in DOMAIN TranslationDirectory :
                    TranslationDirectory[i].abbreviation = abbreviation}
    IN  IF hits = {} THEN [found |-> FALSE, table |-> <<>>]
        ELSE [found |-> TRUE,
              table |-> TranslationDirectory[
                            CHOOSE i \in hits : \A j \in hits : i <= j].table]

(***************************************************************************)
(* The queries the client sends, as the log of a call records them.        *)
(***************************************************************************)
\* "SELECT b FROM key_abbreviations_english WHERE a = ?"
BookQuery(book_name) == [q |-> "book", table |-> <<>>, params |-> <<book_name>>]

\* "SELECT `table` FROM bible.bible_version_key WHERE abbreviation = ?"
TranslationQuery(abbreviation) ==
    [q |-> "translation", table |-> <<>>, params |-> <<abbreviation>>]

\* f"SELECT c AS chapter, v AS verse, t AS text FROM {table_name}
\*   WHERE id >= ? AND id <= ?"
RangeQuery(table_name, start_ref, end_ref) ==
    [q |-> "range", table |-> table_name, params |-> <<start_ref, end_ref>>]

\* "SELECT * FROM bible_version_key"
ListQuery == [q |-> "list", table |-> <<>>, params |-> <<>>]

(***************************************************************************)
(* The client.  None is 0; a connection is the number of the handle        *)
(* mariadb.connect returned, a cursor the number of the connection it was  *)
(* made from.  openConns and openCursors are the handles not yet closed.   *)
(* A call meets at most one failure of the store: the interaction named    *)
(* by fault raises mariadb.Error.  session is the handle the __enter__ of  *)
(* the with-block in progress opened, None outside a with-block.           *)
(***************************************************************************)
VARIABLES connection, cursor, openConns, openCursors, nextId, session, call

vars == <<connection, cursor, openConns, openCursors, nextId, session, call>>

None == 0

FaultPoints ==
    {"connect", "cursor", "execute_book", "fetch_book", "execute_translation",
     "fetch_translation", "execute_range", "fetch_range", "execute_list",
     "fetch_list", "close_cursor", "close_connection"}

Client ==
    [connection |-> connection, cursor |-> cursor, openConns |-> openConns,
     openCursors |-> openCursors, nextId |-> nextId]

\* What a handler leaves behind: the exception raised ("none" when it
\* returns), the client afterwards, the queries sent, whether the store
\* failed in it, and the values it returns.
Res(exc, c, sent) ==
    [exc |-> exc, c |-> c, sent |-> sent, failed |-> exc = "DataAccessError",
     b |-> 0, table_name |-> <<>>, start_ref |-> <<>>, end_ref |-> <<>>,
     rows |-> {}, listing |-> <<>>]

\* connect(): the handle, then its cursor; a mariadb.Error is logged and
\* raised again.
Opened(c, h) ==
    [c EXCEPT !.connection = h, !.nextId = h, !.openConns = @ \cup {h}]

WithCursor(c, h) == [c EXCEPT !.cursor = h, !.openCursors = @ \cup {h}]

Connect(c, fault) ==
    IF fault = "connect" THEN Res("DataAccessError", c, <<>>)
    ELSE IF fault = "cursor"
    THEN Res("DataAccessError", Opened(c, c.nextId + 1), <<>>)
    ELSE Res("none", WithCursor(Opened(c, c.nextId + 1), c.nextId + 1), <<>>)

\* disconnect(): the cursor's close() may raise; the connection's close()
\* is guarded, and the field is cleared in the finally clause.
CursorClosed(c) == [c EXCEPT !.cursor = None, !.openCursors = @ \ {c.cursor}]

ConnectionClosed(c, fault) ==
    IF c.connection = None THEN c
    ELSE [c EXCEPT !.connection = None,
                   !.openConns = IF fault = "close_connection" THEN @
                                 ELSE @ \ {c.connection}]

Disconnect(c, fault) ==
    IF c.cursor # None /\ fault = "close_cursor"
    THEN Res("DataAccessError", c, <<>>)
    ELSE [Res("none", ConnectionClosed(CursorClosed(c), fault), <<>>) EXCEPT
            !.failed = c.connection # None /\ fault = "close_connection"]

\* ensure_connected(), after its connect() returned or raised r.
Connected(r) ==
    IF r.exc = "none" /\ r.c.cursor = None
    THEN Res("RuntimeError", r.c, <<>>)
    ELSE r

\* EnsureConnected testing the connection only.
EnsureConnected_ConnectionOnly(c, fault) ==
    IF c.connection = None THEN Connected(Connect(c, fault))
    ELSE Connected(Res("none", c, <<>>))

\* ensure_connected()
EnsureConnected(c, fault) ==
    IF c.connection = None \/ c.cursor = None THEN Connected(Connect(c, fault))
    ELSE Res("none", c, <<>>)

\* get_cursor()
GetCursor(c, fault) == EnsureConnected(c, fault)

\* __enter__()
Enter(c, fault) == Connect(c, fault)

\* The handle of the with-block __enter__ opens: none when it raised.
Entered(r) == IF r.exc = "none" THEN r.c.connection ELSE None

\* __exit__(exc_type, exc_val, exc_tb)
Exit(c, fault) == Disconnect(c, fault)

(***************************************************************************)
(* The handlers.                                                           *)
(***************************************************************************)
\* BookFrom returning None for a book without a row instead of raising.
BookFrom_NoRaise(g, book_name, fault) ==
    IF g.exc # "none" THEN g
    ELSE IF fault \in {"execute_book", "fetch_book"}
    THEN Res("DataAccessError", g.c, <<BookQuery(book_name)>>)
    ELSE IF book_name \in DOMAIN BookIndex
    THEN [Res("none", g.c, <<BookQuery(book_name)>>) EXCEPT
            !.b = BookIndex[book_name]]
    ELSE Res("none", g.c, <<BookQuery(book_name)>>)

\* BookFrom running the lookup a second time when the first one fails.
BookFrom_RetriesOnce(g, book_name, fault) ==
    IF g.exc # "none" THEN g
    ELSE IF book_name \notin DOMAIN BookIndex
    THEN Res("BookNotFound", g.c, <<BookQuery(book_name)>>)
    ELSE IF fault \in {"execute_book", "fetch_book"}
    THEN [Res("none", g.c, <<BookQuery(book_name), BookQuery(book_name)>>)
             EXCEPT !.b = BookIndex[book_name], !.failed = TRUE]
    ELSE [Res("none", g.c, <<BookQuery(book_name)>>) EXCEPT
            !.b = BookIndex[book_name]]

\* _get_book_from_name(book_name), once get_cursor() returned or raised g.
BookFrom(g, book_name, fault) ==
    IF g.exc # "none" THEN g
    ELSE IF fault \in {"execute_book", "fetch_book"}
    THEN Res("DataAccessError", g.c, <<BookQuery(book_name)>>)
    ELSE IF book_name \in DOMAIN BookIndex
    THEN [Res("none", g.c, <<BookQuery(book_name)>>) EXCEPT
            !.b = BookIndex[book_name]]
    ELSE Res("BookNotFound", g.c, <<BookQuery(book_name)>>)

\* _get_book_from_name(book_name)
GetBookFromName(c, book_name, fault) ==
    BookFrom(GetCursor(c, fault), book_name, fault)

\* The book token of _parse_reference: the text before the last space,
\* stripped (the empty string when ref holds no space and none is cut).
BookToken(ref) ==
    IF Len(RSplitLast(ref, " ")) = 2 THEN Strip(RSplitLast(ref, " ")[1]) ELSE <<>>

\* The end of _parse_reference: the key pair p after the book lookup g.
Parsed(g, p) ==
    [Res(p.exc, g.c, g.sent) EXCEPT
        !.b = g.b, !.start_ref = p.start_ref, !.end_ref = p.end_ref]

\* ParseReference looking the book up before it checks the split.
ParseReference_LookupFirst(g, c, ref) ==
    IF g.exc # "none" THEN g
    ELSE IF Len(RSplitLast(ref, " ")) # 2 THEN Res("InvalidFormat", g.c, g.sent)
    ELSE Parsed(g, ParseCitation(g.b, Strip(RSplitLast(ref, " ")[2])))

\* _parse_reference(ref); g is what self._get_book_from_name(book) does
\* when it is called, which the unit tests patch.
ParseReference(g, c, ref) ==
    IF Len(RSplitLast(ref, " ")) # 2 THEN Res("InvalidFormat", c, <<>>)
    ELSE IF g.exc # "none" THEN g
    ELSE Parsed(g, ParseCitation(g.b, Strip(RSplitLast(ref, " ")[2])))

\* The translation lookup of get_verses once get_cursor() returned or
\* raised g: the directory row of the abbreviation.
TableFrom(g, abbreviation, fault) ==
    IF g.exc # "none" THEN g
    ELSE IF fault \in {"execute_translation", "fetch_translation"}
    THEN Res("DataAccessError", g.c, <<TranslationQuery(abbreviation)>>)
    ELSE IF ~DirectoryRow(abbreviation).found
    THEN Res("TranslationNotFound", g.c, <<TranslationQuery(abbreviation)>>)
    ELSE [Res("none", g.c, <<TranslationQuery(abbreviation)>>) EXCEPT
            !.table_name = DirectoryRow(abbreviation).table]

\* LookupTable with the translation code as given.
LookupTable_NoUpper(c, translation, fault) ==
    TableFrom(GetCursor(c, fault), translation, fault)

\* The translation lookup of get_verses: the code is upper-cased first.
LookupTable(c, translation, fault) ==
    TableFrom(GetCursor(c, fault), Upper(translation), fault)

\* The range query of get_verses.
FetchVerses(c, table_name, start_ref, end_ref, fault) ==
    IF fault \in {"execute_range", "fetch_range"}
       \/ table_name \notin DOMAIN VerseTables
    THEN Res("DataAccessError", c,
             <<RangeQuery(table_name, start_ref, end_ref)>>)
    ELSE [Res("none", c, <<RangeQuery(table_name, start_ref, end_ref)>>) EXCEPT
            !.rows = RowsBetween(table_name, start_ref, end_ref)]

\* A later step r of get_verses after the steps q: the queries of both, and
\* the keys parsed so far.
After(q, r) ==
    [r EXCEPT !.sent = q.sent \o r.sent, !.start_ref = q.start_ref,
              !.end_ref = q.end_ref]

\* VersesIn without the isidentifier() check.
VersesIn_NoIdentifierCheck(p, t, fault) ==
    IF t.exc # "none" THEN After(p, t)
    ELSE After(p, After(t, FetchVerses(t.c, t.table_name, p.start_ref,
                                       p.end_ref, fault)))

\* get_verses, from the isidentifier() check on: p is the parse and t the
\* table lookup.
VersesIn(p, t, fault) ==
    IF t.exc # "none" THEN After(p, t)
    ELSE IF ~IsIdentifier(t.table_name)
    THEN After(p, Res("InvalidTableName", t.c, t.sent))
    ELSE After(p, After(t, FetchVerses(t.c, t.table_name, p.start_ref,
                                       p.end_ref, fault)))

\* get_verses, from the table lookup on.
VersesOf(p, translation, fault) ==
    IF p.exc # "none" THEN [p EXCEPT !.start_ref = <<>>, !.end_ref = <<>>]
    ELSE VersesIn(p, LookupTable(p.c, translation, fault), fault)

\* VersesFrom rejecting every blank reference as empty.
VersesFrom_BlankIsEmpty(e, ref, translation, fault) ==
    IF e.exc # "none" THEN e
    ELSE IF Strip(ref) = <<>> THEN Res("EmptyReference", e.c, <<>>)
    ELSE VersesOf(ParseReference(GetBookFromName(e.c, BookToken(ref), fault),
                                 e.c, ref),
                  translation, fault)

\* VersesFrom resolving the translation before it parses the reference.
VersesFrom_TranslationFirst(e, ref, translation, fault) ==
    IF e.exc # "none" THEN e
    ELSE IF ref = <<>> THEN Res("EmptyReference", e.c, <<>>)
    ELSE IF LookupTable(e.c, translation, fault).exc # "none"
    THEN LookupTable(e.c, translation, fault)
    ELSE VersesOf(ParseReference(GetBookFromName(e.c, BookToken(ref), fault),
                                 e.c, ref),
                  translation, fault)

\* get_verses, once ensure_connected() returned or raised e.
VersesFrom(e, ref, translation, fault) ==
    IF e.exc # "none" THEN e
    ELSE IF ref = <<>> THEN Res("EmptyReference", e.c, <<>>)
    ELSE VersesOf(ParseReference(GetBookFromName(e.c, BookToken(ref), fault),
                                 e.c, ref),
                  translation, fault)

\* GetVerses rejecting the empty reference before it connects.
GetVerses_ValidatesFirst(c, ref, translation, fault) ==
    IF ref = <<>> THEN Res("EmptyReference", c, <<>>)
    ELSE VersesFrom(EnsureConnected(c, fault), ref, translation, fault)

\* get_verses(ref, translation)
GetVerses(c, ref, translation, fault) ==
    VersesFrom(EnsureConnected(c, fault), ref, translation, fault)

\* ListingFrom letting the error of the connection through.
ListingFrom_ConnectErrorRaised(g, fault) ==
    IF g.exc # "none" THEN g
    ELSE IF fault \in {"execute_list", "fetch_list"}
    THEN [Res("none", g.c, <<ListQuery>>) EXCEPT !.failed = TRUE]
    ELSE [Res("none", g.c, <<ListQuery>>) EXCEPT !.listing = TranslationDirectory]

\* get_available_translations() once get_cursor() returned or raised g: a
\* mariadb.Error, of the connection too, becomes the empty list.
ListingFrom(g, fault) ==
    IF g.exc = "DataAccessError" THEN [g EXCEPT !.exc = "none"]
    ELSE IF g.exc # "none" THEN g
    ELSE IF fault \in {"execute_list", "fetch_list"}
    THEN [Res("none", g.c, <<ListQuery>>) EXCEPT !.failed = TRUE]
    ELSE [Res("none", g.c, <<ListQuery>>) EXCEPT !.listing = TranslationDirectory]

\* get_available_translations()
GetAvailableTranslations(c, fault) == ListingFrom(GetCursor(c, fault), fault)

(***************************************************************************)
(* The inputs.  A generated reference is the book token, a space and the   *)
(* chapter/verse portion of one of six shapes, its numbers written in      *)
(* decimal with pad leading zeros; the raw references are the malformed    *)
(* and borderline ones.                                                    *)
(***************************************************************************)
RECURSIVE Zeros(_)
Zeros(n) == IF n = 0 THEN <<>> ELSE <<"0">> \o Zeros(n - 1)

Numeral(n, pad) == Zeros(pad) \o DecDigits(n)

Shapes == {"V", "C:V", "V-V", "C:V-V", "V-C:V", "C:V-C:V"}

\* The generated inputs: each shape over the book tokens, chapter numbers,
\* verse numbers and paddings given; a number the shape has no place for
\* is 0.
Generated(tokens, chapters, verses, pads) ==
    {[kind |-> k, tok |-> t, c1 |-> c1, v1 |-> v1, c2 |-> c2, v2 |-> v2,
      pad |-> p] :
        k \in Shapes, t \in tokens, c1 \in chapters \cup {0},
        v1 \in verses, c2 \in chapters \cup {0}, v2 \in verses \cup {0},
        p \in pads}

WellShaped(g) ==
    /\ g.kind \in {"V", "V-V", "V-C:V"} => g.c1 = 0
    /\ g.kind \in {"V", "C:V", "V-V", "C:V-V"} => g.c2 = 0
    /\ g.kind \in {"V", "C:V"} => g.v2 = 0

Left(g) ==
    IF g.kind \in {"C:V", "C:V-V", "C:V-C:V"}
    THEN Numeral(g.c1, g.pad) \o <<":">> \o Numeral(g.v1, g.pad)
    ELSE Numeral(g.v1, g.pad)

Right(g) ==
    IF g.kind \in {"V-C:V", "C:V-C:V"}
    THEN Numeral(g.c2, g.pad) \o <<":">> \o Numeral(g.v2, g.pad)
    ELSE Numeral(g.v2, g.pad)

Citation(g) ==
    IF g.kind \in {"V", "C:V"} THEN Left(g) ELSE Left(g) \o <<"-">> \o Right(g)

Render(g) == g.tok \o <<" ">> \o Citation(g)

Raw(ref) ==
    [kind |-> "raw", tok |-> ref, c1 |-> 0, v1 |-> 0, c2 |-> 0, v2 |-> 0,
     pad |-> 0]

RefOf(g) == IF g.kind = "raw" THEN g.tok ELSE Render(g)

John == <<"J", "o", "h", "n">>

Jude == <<"J", "u", "d", "e">>

Kings == <<"1", " ", "K", "i">>

Unknown == <<"X", "y", "z">>

\* The references the parser is checked on, the book lookup patched.
ParseRaw ==
    {<<>>,
     <<" ">>,
     <<" ", " ", " ">>,
     <<"J", "o", "h", "n">>,
     <<"J", "o", "h", "n", "3", ":", "1", "6">>,
     <<"J", "o", "h", "n", "\t", "3", ":", "1", "6">>,
     <<"J", "o", "h", "n", " ", "3", ":", "1", "6", " ">>,
     <<"J", "o", "h", "n", " ", " ", "3", ":", "1", "6">>,
     <<" ", "J", "o", "h", "n", " ", "3", ":", "1", "6">>,
     <<"J", "o", "h", "n", " ", "\t", "3", ":", "1", "6">>,
     <<"J", "o", "h", "n", " ", "3", ":", "1", "6", "-", "-", "5">>,
     <<"J", "o", "h", "n", " ", "3", ":", "1", "6", "-", "4", ":", "3", "-", "5">>,
     <<"J", "o", "h", "n", " ", "x">>,
     <<"J", "o", "h", "n", " ", "3", ":">>,
     <<"J", "o", "h", "n", " ", "-", "3">>,
     <<"J", "u", "d", "e", " ", "1", "_", "3">>,
     <<"J", "o", "h", "n", " ", "3", ":", "+", "1", "6">>,
     <<"X", "y", "z", " ", "3", ":", "x">>,
     <<" ", "3", ":", "1", "6">>,
     <<"J", "o", "h", "n", " ", "3", ":", "4", ":", "5">>,
     <<"J", "o", "h", "n", " ", ":", "1", "6">>,
     <<"J", "o", "h", "n", " ", "3", ":", "1", "6", "-">>,
     <<"J", "o", "h", "n", " ", "-">>,
     <<"J", "o", "h", "n", " ", ":">>,
     <<"J", "o", "h", "n", " ", "3", ":", "1", "6", "-", "4", ":">>,
     <<"J", "o", "h", "n", " ", "3", ":", "1", "6", "-", ":", "3">>,
     <<"J", "o", "h", "n", " ", "1", "-", "2", ":", "-", "3">>,
     <<"J", "o", "h", "n", " ", "3", ":", "1", "_", "_", "6">>,
     <<"J", "o", "h", "n", " ", "3", ":", "_", "1", "6">>,
     <<"J", "o", "h", "n", " ", "3", ":", "1", "6", "\t">>,
     <<"J", "o", "h", "n", " ", "3", ":", "-", " ", "5">>,
     <<"J", "o", "h", "n", " ", "3", ":", "1", "6", "-", "4", "-", "5">>}

ParseInputs ==
    {g \in Generated({John, Kings}, {3, 4, 999, 1000},
                     {0, 3, 16, 18, 999, 1000}, 0..MaxPad) : WellShaped(g)}
    \cup {Raw(r) : r \in ParseRaw}

\* The book numbers the patched lookup returns.
PatchedBooks == {1, 43, 99, 100}

\* The references get_verses and the unpatched parser are called with.
CallRaw ==
    {<<"J", "u", "d", "e", " ", "5">>,
     <<"J", "u", "d", "e", " ", "1", "-", "1", "3">>,
     <<"1", " ", "K", "i", " ", "1", ":", "1">>,
     <<"G", "e", "n", " ", "1", ":", "1">>,
     <<"X", "y", "z", " ", "3", ":", "1", "6">>,
     <<"J", "o", "h", "n", " ", "3", "6", ":", "3">>,
     <<>>,
     <<" ">>,
     <<" ", " ", " ">>,
     <<"J", "o", "h", "n">>,
     <<"J", "o", "h", "n", "3", ":", "1", "6">>,
     <<"J", "o", "h", "n", "\t", "3", ":", "1", "6">>,
     <<"J", "o", "h", "n", " ", "3", ":", "1", "6", " ">>,
     <<"J", "o", "h", "n", " ", " ", "3", ":", "1", "6">>,
     <<" ", "J", "o", "h", "n", " ", "3", ":", "1", "6">>,
     <<"J", "o", "h", "n", " ", "\t", "3", ":", "1", "6">>,
     <<"J", "o", "h", "n", " ", "3", ":", "1", "6", "-", "-", "5">>,
     <<"J", "o", "h", "n", " ", "3", ":", "1", "6", "-", "4", ":", "3", "-", "5">>,
     <<"J", "o", "h", "n", " ", "x">>,
     <<"J", "o", "h", "n", " ", "3", ":">>,
     <<"J", "o", "h", "n", " ", "-", "3">>,
     <<"J", "u", "d", "e", " ", "1", "_", "3">>,
     <<"J", "o", "h", "n", " ", "3", ":", "+", "1", "6">>,
     <<"X", "y", "z", " ", "3", ":", "x">>,
     <<" ", "3", ":", "1", "6">>,
     <<"J", "o", "h", "n", " ", "3", ":", "4", ":", "5">>,
     <<"J", "o", "h", "n", " ", "3", ":", "1", "6", "-">>,
     <<"J", "o", "h", "n", " ", ":", "1", "6">>}

CallInputs ==
    {g \in Generated({John}, {3, 4}, {16, 18}, {0}) :
        /\ WellShaped(g)
        /\ g.kind \in {"C:V", "C:V-V", "C:V-C:V"} => g.c1 # 0
        /\ g.kind \in {"V-C:V", "C:V-C:V"} => g.c2 # 0
        /\ g.kind \notin {"V", "C:V"} => g.v2 # 0}
    \cup {Raw(r) : r \in CallRaw}

Translations ==
    {<<"k", "j", "v">>, <<"W", "e", "b">>, <<"b", "a", "d">>, <<"n", "1">>,
     <<"n", "i", "v">>}

(***************************************************************************)
(* The state machine.  call is the call in progress as its caller sees it  *)
(* on return: the operation, its arguments, the exception raised, the      *)
(* result and the queries sent; Return ends it.                            *)
(***************************************************************************)
NoCall ==
    [op |-> "none", input |-> Raw(<<>>), ref |-> <<>>, translation |-> <<>>,
     fault |-> "none",
     before |-> [connection |-> None, cursor |-> None, nextId |-> 0,
                 session |-> None, exc |-> "none"],
     exc |-> "none", failed |-> FALSE, b |-> 0, start_ref |-> <<>>, end_ref |-> <<>>,
     rows |-> {}, listing |-> <<>>, sent |-> <<>>]

Init ==
    /\ connection = None
    /\ cursor = None
    /\ openConns = {}
    /\ openCursors = {}
    /\ nextId = 0
    /\ session = None
    /\ call = NoCall

Idle == call.op = "none"

\* A call that has to connect needs a handle the model still has.
CanServe == (connection = None \/ cursor = None) => nextId < MaxHandles

Faults(points) == {"none"} \cup points

\* The interactions a query of each kind is made of.
QueryFaults ==
    [book |-> {"execute_book", "fetch_book"},
     translation |-> {"execute_translation", "fetch_translation"},
     range |-> {"execute_range", "fetch_range"},
     list |-> {"execute_list", "fetch_list"}]

\* A call that sent the queries sent on the client as it is got to the
\* interaction fault: connecting when the connection or the cursor is
\* missing, closing what is held, and the execute and fetch of the
\* queries sent.
FaultMet(fault, sent) ==
    \/ fault \in {"connect", "cursor"} /\ (connection = None \/ cursor = None)
    \/ fault = "close_cursor" /\ cursor # None
    \/ fault = "close_connection" /\ connection # None
    \/ \E i \in DOMAIN sent : fault \in QueryFaults[sent[i].q]

\* The call ends: the client is as the handler left it, and the caller
\* holds the result r.  fault is the interaction that raises in the call,
\* recorded when the call got to it; before is the client as the call
\* found it, with the with-block's handle and the exception in flight (of
\* the call before, when __exit__ is run by an exception leaving the
\* block).
Complete(op, g, translation, fault, r) ==
    /\ connection' = r.c.connection
    /\ cursor' = r.c.cursor
    /\ openConns' = r.c.openConns
    /\ openCursors' = r.c.openCursors
    /\ nextId' = r.c.nextId
    /\ call' = [op |-> op, input |-> g, ref |-> RefOf(g),
                translation |-> translation,
                fault |-> IF FaultMet(fault, r.sent) THEN fault ELSE "none",
                before |-> [connection |-> connection, cursor |-> cursor,
                            nextId |-> nextId, session |-> session,
                            exc |-> call.exc],
                exc |-> r.exc, failed |-> r.failed, b |-> r.b,
                start_ref |-> r.start_ref, end_ref |-> r.end_ref,
                rows |-> r.rows, listing |-> r.listing, sent |-> r.sent]

DoConnect ==
    /\ Idle
    /\ nextId < MaxHandles
    /\ \E fault \in Faults({"connect", "cursor"}) :
          Complete("connect", Raw(<<>>), <<>>, fault, Connect(Client, fault))
    /\ UNCHANGED session

DoDisconnect ==
    /\ Idle
    /\ \E fault \in Faults({"close_cursor", "close_connection"}) :
          Complete("disconnect", Raw(<<>>), <<>>, fault,
                   Disconnect(Client, fault))
    /\ UNCHANGED session

DoEnsureConnected ==
    /\ Idle
    /\ CanServe
    /\ \E fault \in Faults({"connect", "cursor"}) :
          Complete("ensure_connected", Raw(<<>>), <<>>, fault,
                   EnsureConnected(Client, fault))
    /\ UNCHANGED session

DoGetBookFromName ==
    /\ Idle
    /\ CanServe
    /\ \E name \in {John, Kings, Unknown, <<>>},
          fault \in Faults({"connect", "cursor", "execute_book", "fetch_book"}) :
          Complete("_get_book_from_name", Raw(name), <<>>, fault,
                   GetBookFromName(Client, name, fault))
    /\ UNCHANGED session

\* _parse_reference called on the client as it is.
DoParseReference ==
    /\ Idle
    /\ CanServe
    /\ \E g \in CallInputs,
          fault \in Faults({"connect", "cursor", "execute_book", "fetch_book"}) :
          Complete("_parse_reference", g, <<>>, fault,
                   ParseReference(
                       GetBookFromName(Client, BookToken(RefOf(g)), fault),
                       Client, RefOf(g)))
    /\ UNCHANGED session

\* _parse_reference as the unit tests call it: _get_book_from_name patched
\* to return book number b.
DoParsePatched ==
    /\ Idle
    /\ \E g \in ParseInputs, b \in PatchedBooks :
          Complete("_parse_reference", g, <<>>, "none",
                   ParseReference([Res("none", Client, <<>>) EXCEPT !.b = b],
                                  Client, RefOf(g)))
    /\ UNCHANGED session

DoGetVerses ==
    /\ Idle
    /\ CanServe
    /\ \E g \in CallInputs, translation \in Translations,
          fault \in Faults(FaultPoints \ {"close_cursor", "close_connection",
                                          "execute_list", "fetch_list"}) :
          Complete("get_verses", g, translation, fault,
                   GetVerses(Client, RefOf(g), translation, fault))
    /\ UNCHANGED session

DoGetAvailableTranslations ==
    /\ Idle
    /\ CanServe
    /\ \E fault \in Faults({"connect", "cursor", "execute_list", "fetch_list"}) :
          Complete("get_available_translations", Raw(<<>>), <<>>, fault,
                   GetAvailableTranslations(Client, fault))
    /\ UNCHANGED session

\* __enter__(): connect(), always; the block is entered when it returns.
\* One with-block on the client is open at a time.
DoEnter ==
    /\ Idle
    /\ session = None
    /\ nextId < MaxHandles
    /\ \E fault \in Faults({"connect", "cursor"}) :
          /\ Complete("__enter__", Raw(<<>>), <<>>, fault, Enter(Client, fault))
          /\ session' = Entered(Enter(Client, fault))

\* __exit__(): the block is left, at its end or by the exception the call
\* before raised; disconnect().
DoExit ==
    /\ session # None
    /\ Idle \/ call.exc # "none"
    /\ \E fault \in Faults({"close_cursor", "close_connection"}) :
          Complete("__exit__", Raw(<<>>), <<>>, fault, Exit(Client, fault))
    /\ session' = None

\* The caller takes the result (or the exception) and goes on.
Return ==
    /\ ~Idle
    /\ call' = NoCall
    /\ UNCHANGED <<connection, cursor, openConns, openCursors, nextId, session>>

Next ==
    \/ DoConnect
    \/ DoDisconnect
    \/ DoEnsureConnected
    \/ DoGetBookFromName
    \/ DoParseReference
    \/ DoGetVerses
    \/ DoGetAvailableTranslations
    \/ DoEnter
    \/ DoExit
    \/ Return

Spec == Init /\ [][Next]_vars

\* The parser alone, as the unit tests exercise it.
NextParse == DoParsePatched \/ Return

SpecParse == Init /\ [][NextParse]_vars

(***************************************************************************)
(* The properties.                                                         *)
(***************************************************************************)
\* The key BBCCCVVV of book b, chapter c and verse v, as a number.
Composite(b, c, v) == b * 1000000 + c * 1000 + v

\* key is the eight digits of book b, chapter c, verse v.
IsKey(key, b, c, v) ==
    /\ Len(key) = 8
    /\ \A i \in DOMAIN key : IsDigit(key[i])
    /\ KeyNumber(key) = Composite(b, c, v)

\* The call is _parse_reference on a generated reference of one of the
\* kinds, with book, chapters and verses inside the key's widths.
ParsedKind(kinds) ==
    /\ call.op = "_parse_reference"
    /\ call.input.kind \in kinds
    /\ call.b \in 1..99
    /\ \A n \in {call.input.c1, call.input.v1, call.input.c2, call.input.v2} :
          n \in 0..999

\* C1: for a book number in 1..99 and chapter and verse in 0..999, the
\* parser returns two equal keys for a reference that is no range:
\* pad2(b)+pad3(C)+pad3(V) for "<Book> C:V" and pad2(b)+"001"+pad3(V) for
\* the chapterless "<Book> V"; and whenever it returns for a reference
\* without '-', the two keys are equal.
C1_SingleReferenceKeys ==
    /\ ParsedKind({"C:V"}) =>
          /\ call.exc = "none"
          /\ call.start_ref = call.end_ref
          /\ IsKey(call.start_ref, call.b, call.input.c1, call.input.v1)
    /\ ParsedKind({"V"}) =>
          /\ call.exc = "none"
          /\ call.start_ref = call.end_ref
          /\ IsKey(call.start_ref, call.b, 1, call.input.v1)
    /\ (call.op = "_parse_reference" /\ call.exc = "none"
        /\ ~Contains(call.ref, "-")) => call.start_ref = call.end_ref

C1_Witness ==
    /\ ParsedKind({"V"})
    /\ call.b = 99
    /\ call.input.v1 = 16
    /\ call.input.pad = 1
    /\ call.start_ref = <<"9", "9", "0", "0", "1", "0", "1", "6">>
    /\ call.end_ref = call.start_ref

\* C2: for a range whose right side has no ':', the end key reuses the
\* start chapter: "<Book> C:V1-V2" gives pad2(b)+pad3(C)+pad3(V1) and
\* pad2(b)+pad3(C)+pad3(V2), and "<Book> V1-V2" gives both keys in
\* chapter 001.
C2_RangeWithinChapter ==
    /\ ParsedKind({"C:V-V"}) =>
          /\ call.exc = "none"
          /\ IsKey(call.start_ref, call.b, call.input.c1, call.input.v1)
          /\ IsKey(call.end_ref, call.b, call.input.c1, call.input.v2)
    /\ ParsedKind({"V-V"}) =>
          /\ call.exc = "none"
          /\ IsKey(call.start_ref, call.b, 1, call.input.v1)
          /\ IsKey(call.end_ref, call.b, 1, call.input.v2)

C2_Witness ==
    /\ ParsedKind({"C:V-V"})
    /\ call.b = 43
    /\ call.ref = <<"J", "o", "h", "n", " ", "3", ":", "1", "6", "-", "1", "8">>
    /\ call.start_ref = <<"4", "3", "0", "0", "3", "0", "1", "6">>
    /\ call.end_ref = <<"4", "3", "0", "0", "3", "0", "1", "8">>

\* C3: for a range whose right side has its own ':', the end chapter is
\* the right side's: "<Book> C1:V1-C2:V2" gives pad2(b)+pad3(C1)+pad3(V1)
\* and pad2(b)+pad3(C2)+pad3(V2); with a chapterless left side the start
\* chapter is 001 and the end chapter still C2.
C3_RangeAcrossChapters ==
    /\ ParsedKind({"C:V-C:V"}) =>
          /\ call.exc = "none"
          /\ IsKey(call.start_ref, call.b, call.input.c1, call.input.v1)
          /\ IsKey(call.end_ref, call.b, call.input.c2, call.input.v2)
    /\ ParsedKind({"V-C:V"}) =>
          /\ call.exc = "none"
          /\ IsKey(call.start_ref, call.b, 1, call.input.v1)
          /\ IsKey(call.end_ref, call.b, call.input.c2, call.input.v2)

C3_Witness ==
    /\ ParsedKind({"C:V-C:V"})
    /\ call.b = 43
    /\ call.ref = <<"J", "o", "h", "n", " ", "3", ":", "1", "6", "-", "4", ":", "3">>
    /\ call.start_ref = <<"4", "3", "0", "0", "3", "0", "1", "6">>
    /\ call.end_ref = <<"4", "3", "0", "0", "4", "0", "0", "3">>

\* The queries of kind q the call sent.
Sent(q) == {i \in DOMAIN call.sent : call.sent[i].q = q}

\* The reference holds nothing but spaces (the empty reference too).
IsBlank(ref) == \A i \in DOMAIN ref : ref[i] = " "

\* C4 as written: get_verses fails with EmptyReference for every empty or
\* blank reference, whatever the translation, and sends no query (the
\* call's connection being ensured).
C4_BlankRejectedAsEmpty ==
    (call.op = "get_verses" /\ IsBlank(call.ref) /\ ~call.failed) =>
        (call.exc = "EmptyReference" /\ call.sent = <<>>)

\* C4, amended: get_verses fails with EmptyReference for the empty
\* reference and only for it, whatever the translation, and sends no query
\* in that call (a failure to connect is raised instead).  A reference of
\* one or more spaces is not rejected as empty: it reaches the parser,
\* which sends the book lookup for the empty book token, and the call
\* fails with BookNotFound.
C4_EmptyReference ==
    call.op = "get_verses" =>
        /\ call.ref = <<>> =>
              /\ call.exc = "EmptyReference" \/ call.failed
              /\ call.sent = <<>>
        /\ call.exc = "EmptyReference" => call.ref = <<>>
        /\ (IsBlank(call.ref) /\ call.ref # <<>> /\ ~call.failed) =>
              /\ call.exc = "BookNotFound"
              /\ call.sent = <<BookQuery(<<>>)>>

C4_Witness ==
    /\ call.op = "get_verses"
    /\ call.ref = <<>>
    /\ call.translation = <<"n", "i", "v">>
    /\ call.exc = "EmptyReference"
    /\ call.sent = <<>>

\* C5: for a non-empty reference without a space, _parse_reference fails
\* with InvalidFormat, and so does get_verses once its connection is
\* ensured; no book lookup, translation lookup or range query is sent in
\* the call.
C5_NoSpaceIsInvalidFormat ==
    (call.op \in {"_parse_reference", "get_verses"}
     /\ call.ref # <<>> /\ ~Contains(call.ref, " ")) =>
        /\ call.sent = <<>>
        /\ call.op = "_parse_reference" => call.exc = "InvalidFormat"
        /\ call.op = "get_verses" => call.exc = "InvalidFormat" \/ call.failed

C5_Witness ==
    /\ call.op = "get_verses"
    /\ call.ref = <<"J", "o", "h", "n", "3", ":", "1", "6">>
    /\ call.exc = "InvalidFormat"
    /\ call.sent = <<>>

\* C6: when the book token, the stripped text before the last space, has
\* no row in the book index, get_verses fails with BookNotFound after the
\* book lookup alone: neither the translation lookup nor the range query
\* is sent.  _get_book_from_name itself raises it for a name without a
\* row.
C6_BookNotFound ==
    /\ (call.op = "get_verses" /\ Contains(call.ref, " ") /\ ~call.failed
        /\ BookToken(call.ref) \notin DOMAIN BookIndex) =>
          /\ call.exc = "BookNotFound"
          /\ call.sent = <<BookQuery(BookToken(call.ref))>>
    /\ (call.op = "_get_book_from_name" /\ ~call.failed
        /\ call.ref \notin DOMAIN BookIndex) => call.exc = "BookNotFound"
    /\ call.exc = "BookNotFound" => Sent("translation") \cup Sent("range") = {}

C6_Witness ==
    /\ call.op = "get_verses"
    /\ call.ref = <<"X", "y", "z", " ", "3", ":", "1", "6">>
    /\ call.translation = <<"k", "j", "v">>
    /\ call.exc = "BookNotFound"
    /\ Len(call.sent) = 1

\* The directory holds a row for the abbreviation.
InDirectory(abbreviation) ==
    \E i \in DOMAIN TranslationDirectory :
        TranslationDirectory[i].abbreviation = abbreviation

\* C7: the translation lookup get_verses sends carries the upper-cased
\* code; a call that gets the lookup's answer fails with
\* TranslationNotFound exactly when the directory has no row for the
\* upper-cased code, and then sends no range query.  The outcome so
\* depends on the code only through its upper-cased form.
C7_TranslationNotFound ==
    call.op = "get_verses" =>
        /\ \A i \in Sent("translation") :
              call.sent[i].params = <<Upper(call.translation)>>
        /\ (Sent("translation") # {} /\ ~call.failed) =>
              (call.exc = "TranslationNotFound"
                  <=> ~InDirectory(Upper(call.translation)))
        /\ call.exc = "TranslationNotFound" =>
              /\ Sent("range") = {}
              /\ Sent("translation") # {}

C7_Witness ==
    /\ call.op = "get_verses"
    /\ call.translation = <<"n", "i", "v">>
    /\ call.exc = "TranslationNotFound"
    /\ Len(call.sent) = 2
    /\ call.sent[2] = TranslationQuery(<<"N", "I", "V">>)

\* Letters, digits and underscores only.
OnlyWordCharacters(s) ==
    \A i \in DOMAIN s : IsLetter(s[i]) \/ IsDigit(s[i]) \/ s[i] = "_"

\* The table column of the directory's rows for the abbreviation.
TablesOf(abbreviation) ==
    {TranslationDirectory[i].table :
        i \in {j \in DOMAIN TranslationDirectory :
                  TranslationDirectory[j].abbreviation = abbreviation}}

\* C8: a range query is only ever sent against a table name of letters,
\* digits and underscores; when the directory's answer is a name with
\* another character in it, get_verses fails with InvalidTableName and
\* sends no range query.
C8_OnlySafeTableNames ==
    call.op = "get_verses" =>
        /\ \A i \in Sent("range") :
              /\ call.sent[i].table # <<>>
              /\ OnlyWordCharacters(call.sent[i].table)
        /\ (Sent("translation") # {} /\ ~call.failed
            /\ \E t \in TablesOf(Upper(call.translation)) :
                  ~OnlyWordCharacters(t)) =>
              /\ call.exc = "InvalidTableName"
              /\ Sent("range") = {}
        /\ call.exc = "InvalidTableName" => Sent("range") = {}

C8_Witness ==
    /\ call.op = "get_verses"
    /\ call.translation = <<"b", "a", "d">>
    /\ call.exc = "InvalidTableName"
    /\ Len(call.sent) = 2

\* The number of the start key and of the end key a generated reference
\* of book number b stands for.
StartOf(g, b) ==
    Composite(b, IF g.kind \in {"C:V", "C:V-V", "C:V-C:V"} THEN g.c1 ELSE 1, g.v1)

EndOf(g, b) ==
    Composite(b,
              IF g.kind \in {"V-C:V", "C:V-C:V"} THEN g.c2
              ELSE IF g.kind \in {"C:V", "C:V-V"} THEN g.c1 ELSE 1,
              IF g.kind \in {"V", "C:V"} THEN g.v1 ELSE g.v2)

\* C9: for a valid reference and a known translation get_verses sends one
\* range query, against the table of the translation's row and bounded by
\* the parser's key pair, and returns exactly the rows of that table with
\* start <= id <= end, the empty result included; it raises nothing unless
\* the store fails.
C9_RowsInBounds ==
    call.op = "get_verses" =>
        /\ call.exc = "none" =>
              /\ Len(call.sent) = 3
              /\ Sent("range") = {3}
              /\ call.sent[3].params = <<call.start_ref, call.end_ref>>
              /\ TablesOf(Upper(call.translation)) = {call.sent[3].table}
        /\ (call.input.kind # "raw" /\ call.input.tok \in DOMAIN BookIndex
            /\ Upper(call.translation) \in {<<"K", "J", "V">>, <<"W", "E", "B">>}
            /\ ~call.failed) =>
              /\ call.exc = "none"
              /\ KeyNumber(call.start_ref)
                    = StartOf(call.input, BookIndex[call.input.tok])
              /\ KeyNumber(call.end_ref)
                    = EndOf(call.input, BookIndex[call.input.tok])
              /\ call.rows =
                    {id \in VerseTables[call.sent[3].table] :
                        /\ StartOf(call.input, BookIndex[call.input.tok]) <= id
                        /\ id <= EndOf(call.input, BookIndex[call.input.tok])}

C9_Witness ==
    /\ call.op = "get_verses"
    /\ call.ref = <<"J", "o", "h", "n", " ", "3", ":", "1", "6", "-", "1", "8">>
    /\ call.translation = <<"k", "j", "v">>
    /\ call.exc = "none"
    /\ call.rows = {43003016, 43003017, 43003018}

\* C10: get_available_translations never raises the store's error: when
\* connecting, the listing query or its fetch fails it returns the empty
\* list, and otherwise all rows of the translation directory.
C10_ListingFailsSoft ==
    call.op = "get_available_translations" =>
        /\ call.exc # "DataAccessError"
        /\ call.failed => (call.exc = "none" /\ call.listing = <<>>)
        /\ (~call.failed /\ call.exc = "none") =>
              /\ call.listing = TranslationDirectory
              /\ call.sent = <<ListQuery>>

C10_Witness ==
    /\ call.op = "get_available_translations"
    /\ call.before.connection = None
    /\ call.failed
    /\ call.sent = <<>>
    /\ call.exc = "none"
    /\ call.listing = <<>>

\* The kinds of the queries the call sent, in the order sent.
Kinds == [i \in DOMAIN call.sent |-> call.sent[i].q]

\* The call found the client with a connection and a cursor.
WasConnected == call.before.connection # None /\ call.before.cursor # None

\* C11: when a round trip of get_verses to the store fails (the book
\* lookup, the translation lookup or the range query, in execute or in
\* the fetch), get_verses raises the DataAccessError and returns no rows;
\* the failed query is the last one the call sent and was sent once, and
\* the client does not reconnect.
C11_StoreFailurePropagates ==
    call.op = "get_verses" =>
        /\ (call.fault \in {"execute_book", "fetch_book"}
            /\ Sent("book") # {}) =>
              /\ call.exc = "DataAccessError"
              /\ call.sent = <<BookQuery(BookToken(call.ref))>>
        /\ (call.fault \in {"execute_translation", "fetch_translation"}
            /\ Sent("translation") # {}) =>
              /\ call.exc = "DataAccessError"
              /\ Kinds = <<"book", "translation">>
        /\ (call.fault \in {"execute_range", "fetch_range"}
            /\ Sent("range") # {}) =>
              /\ call.exc = "DataAccessError"
              /\ Kinds = <<"book", "translation", "range">>
        /\ call.exc = "DataAccessError" =>
              /\ call.rows = {}
              /\ call.fault # "none"
              /\ WasConnected =>
                    /\ connection = call.before.connection
                    /\ cursor = call.before.cursor
                    /\ nextId = call.before.nextId

C11_Witness ==
    /\ call.op = "get_verses"
    /\ call.ref = <<"J", "o", "h", "n", " ", "3", ":", "1", "6">>
    /\ call.fault = "fetch_translation"
    /\ call.exc = "DataAccessError"
    /\ Kinds = <<"book", "translation">>
    /\ WasConnected

\* The connection handle h and the cursor made from it are released: the
\* cursor is closed, and close() has been called on the connection (a
\* close() of the connection that raises counts as the close).
Released(h) ==
    /\ h \notin openCursors
    /\ h \notin openConns \/ call.fault = "close_connection"

\* C12: whenever a with-block on the client is left, at its end or by an
\* exception raised inside it, and whenever disconnect is called on a
\* connected client, the cursor and the connection of the session are
\* closed and both fields of the client, connection and cursor, are None
\* afterwards.
C12_ReleasedOnEveryExit ==
    /\ call.op = "__exit__" =>
          /\ connection = None
          /\ cursor = None
          /\ Released(call.before.session)
    /\ (call.op = "disconnect" /\ WasConnected) =>
          /\ connection = None
          /\ cursor = None
          /\ Released(call.before.connection)

\* s comes before t in the lexicographic order of strings of digits.
RECURSIVE LexLess(_, _)
LexLess(s, t) ==
    IF t = <<>> THEN FALSE
    ELSE IF s = <<>> THEN TRUE
    ELSE IF Head(s) = Head(t) THEN LexLess(Tail(s), Tail(t))
    ELSE DigitVal(Head(s)) < DigitVal(Head(t))

\* (b1, c1, v1) comes before (b2, c2, v2) in the order of the triples.
TripleLess(b1, c1, v1, b2, c2, v2) ==
    \/ b1 < b2
    \/ b1 = b2 /\ c1 < c2
    \/ b1 = b2 /\ c1 = c2 /\ v1 < v2

EightDigits(key) == Len(key) = 8 /\ \A i \in DOMAIN key : IsDigit(key[i])

\* The triples a returned key is compared with.
OrderTriples == {1, 9, 10, 43, 99} \X {0, 3, 10, 999} \X {0, 9, 16, 999}

\* C13: for a book in 1..99 and chapter and verse in 0..999 each key the
\* parser builds is exactly 8 decimal digits, and the lexicographic order
\* of two such keys is the order of their (book, chapter, verse) triples:
\* of the start and end key of one range, and of a returned key and the
\* key of any other triple.  A chapter or verse above 999 or a book above
\* 99 is no error: the key is longer than 8 characters.
C13_KeyWidthAndOrder ==
    (call.op = "_parse_reference" /\ call.input.kind = "C:V-C:V") =>
        /\ call.exc = "none"
        /\ (call.b \in 1..99 /\ call.input.c1 \in 0..999
            /\ call.input.v1 \in 0..999) =>
              /\ EightDigits(call.start_ref)
              /\ \A t \in OrderTriples :
                    /\ EightDigits(MakeKey(t[1], t[2], t[3]))
                    /\ LexLess(call.start_ref, MakeKey(t[1], t[2], t[3]))
                          <=> TripleLess(call.b, call.input.c1, call.input.v1,
                                         t[1], t[2], t[3])
                    /\ LexLess(MakeKey(t[1], t[2], t[3]), call.start_ref)
                          <=> TripleLess(t[1], t[2], t[3], call.b,
                                         call.input.c1, call.input.v1)
        /\ ParsedKind({"C:V-C:V"}) =>
              /\ EightDigits(call.end_ref)
              /\ LexLess(call.start_ref, call.end_ref)
                    <=> TripleLess(call.b, call.input.c1, call.input.v1,
                                   call.b, call.input.c2, call.input.v2)
        /\ (call.b > 99 \/ call.input.c1 > 999 \/ call.input.v1 > 999) =>
              Len(call.start_ref) > 8
        /\ (call.b > 99 \/ call.input.c2 > 999 \/ call.input.v2 > 999) =>
              Len(call.end_ref) > 8

C13_Witness ==
    /\ ParsedKind({"C:V-C:V"})
    /\ call.b = 99
    /\ call.start_ref = <<"9", "9", "9", "9", "9", "0", "0", "0">>
    /\ call.end_ref = <<"9", "9", "0", "0", "4", "9", "9", "9">>
    /\ LexLess(call.end_ref, call.start_ref)

\* A reference above the key's widths is parsed into a longer key.
C13_WitnessTooWide ==
    /\ call.op = "_parse_reference"
    /\ call.exc = "none"
    /\ call.b = 100
    /\ call.input.c1 = 1000
    /\ Len(call.start_ref) = 10

\* The call's reference is a generated range of a known book whose end
\* comes before its start.
ReversedRange ==
    /\ call.input.kind \in {"C:V-V", "C:V-C:V", "V-V", "V-C:V"}
    /\ call.input.tok \in DOMAIN BookIndex
    /\ EndOf(call.input, BookIndex[call.input.tok])
          < StartOf(call.input, BookIndex[call.input.tok])

\* C14: for a range whose end precedes its start the parser makes no
\* ordering check: it returns the two keys as written, the end key below
\* the start key; get_verses with a known translation then sends the range
\* query with these keys, raises nothing and returns no rows.
C14_ReversedRangeIsEmpty ==
    (ReversedRange /\ ~call.failed) =>
        /\ call.op = "_parse_reference" =>
              /\ call.exc = "none"
              /\ KeyNumber(call.start_ref)
                    = StartOf(call.input, BookIndex[call.input.tok])
              /\ KeyNumber(call.end_ref)
                    = EndOf(call.input, BookIndex[call.input.tok])
              /\ LexLess(call.end_ref, call.start_ref)
        /\ (call.op = "get_verses"
            /\ Upper(call.translation) \in {<<"K", "J", "V">>, <<"W", "E", "B">>}) =>
              /\ call.exc = "none"
              /\ Kinds = <<"book", "translation", "range">>
              /\ call.sent[3].params = <<call.start_ref, call.end_ref>>
              /\ LexLess(call.end_ref, call.start_ref)
              /\ call.rows = {}

C14_Witness ==
    /\ call.op = "get_verses"
    /\ call.ref = <<"J", "o", "h", "n", " ", "3", ":", "1", "8", "-", "1", "6">>
    /\ call.translation = <<"k", "j", "v">>
    /\ call.exc = "none"
    /\ call.start_ref = <<"4", "3", "0", "0", "3", "0", "1", "8">>
    /\ call.end_ref = <<"4", "3", "0", "0", "3", "0", "1", "6">>
    /\ call.rows = {}

\* The parser returns the reversed pair of a range across chapters.
C14_WitnessAcrossChapters ==
    /\ call.op = "_parse_reference"
    /\ call.ref = <<"J", "o", "h", "n", " ", "4", ":", "1", "6", "-",
                    "3", ":", "1", "8">>
    /\ call.exc = "none"
    /\ call.start_ref = <<"4", "3", "0", "0", "4", "0", "1", "6">>
    /\ call.end_ref = <<"4", "3", "0", "0", "3", "0", "1", "8">>

\* The client is as the call found it: the same connection and cursor, and
\* no handle opened.
SameHandle ==
    /\ connection = call.before.connection
    /\ cursor = call.before.cursor
    /\ nextId = call.before.nextId

\* connect() ran in the call: mariadb.connect raised, or it returned a new
\* handle that is now the client's connection.
ConnectRan ==
    \/ /\ call.fault = "connect"
       /\ call.exc = "DataAccessError"
       /\ SameHandle
    \/ /\ call.fault # "connect"
       /\ nextId = call.before.nextId + 1
       /\ connection = nextId
       /\ connection \in openConns
       /\ cursor = (IF call.fault = "cursor" THEN None ELSE nextId)

\* C15: ensure_connected calls connect exactly when the connection or the
\* cursor is None.  When both are set it returns with the client as it
\* was, no connection opened; so do the operations that go through it,
\* which reuse the one handle of a connected client.
C15_ConnectsOnlyWhenNeeded ==
    /\ call.op = "ensure_connected" =>
          /\ WasConnected => (call.exc = "none" /\ SameHandle)
          /\ ~WasConnected => ConnectRan
    /\ (call.op \in {"get_verses", "get_available_translations",
                      "_get_book_from_name", "_parse_reference"}
        /\ WasConnected) => SameHandle

C15_Witness ==
    /\ call.op = "ensure_connected"
    /\ WasConnected
    /\ call.exc = "none"
    /\ connection = 1
    /\ nextId = 1

\* ensure_connected connects again when only the cursor is missing.
C15_WitnessCursorMissing ==
    /\ call.op = "ensure_connected"
    /\ call.before.connection = 1
    /\ call.before.cursor = None
    /\ call.exc = "none"
    /\ connection = 2
    /\ cursor = 2

\* s is an initial part of t.
IsPrefix(s, t) == Len(s) <= Len(t) /\ \A i \in DOMAIN s : s[i] = t[i]

\* C16: the queries a get_verses call sends are an initial part of the
\* sequence book lookup, translation lookup, range query: each at most
\* once, in that order.  When neither the book token nor the translation
\* is known, the call so fails with BookNotFound after the book lookup
\* alone, not with TranslationNotFound.
C16_QueriesInOrder ==
    call.op = "get_verses" =>
        /\ IsPrefix(Kinds, <<"book", "translation", "range">>)
        /\ (Contains(call.ref, " ") /\ ~call.failed
            /\ BookToken(call.ref) \notin DOMAIN BookIndex
            /\ ~InDirectory(Upper(call.translation))) =>
              /\ call.exc = "BookNotFound"
              /\ Kinds = <<"book">>

C16_Witness ==
    /\ call.op = "get_verses"
    /\ call.ref = <<"X", "y", "z", " ", "3", ":", "1", "6">>
    /\ call.translation = <<"n", "i", "v">>
    /\ call.exc = "BookNotFound"
    /\ Kinds = <<"book">>

\* C17: after any sequence of connect, disconnect, ensure_connected,
\* with-block entry and exit, get_verses and get_available_translations
\* calls on the client, failing ones included, at most one connection the
\* client opened is still unclosed.
C17_AtMostOneOpenConnection == Cardinality(openConns) <= 1

\* C18: get_verses ensures the connection before it looks at the
\* reference.  Called on a client without connection or cursor with an
\* empty or space-less reference, it runs connect first: when connect
\* fails the connection error is raised, and otherwise the call fails with
\* EmptyReference or InvalidFormat, no query sent, and leaves the client
\* connected.
C18_ConnectsBeforeValidating ==
    (call.op = "get_verses" /\ ~WasConnected
     /\ (call.ref = <<>> \/ ~Contains(call.ref, " "))) =>
        /\ ConnectRan
        /\ call.sent = <<>>
        /\ call.fault \in {"connect", "cursor"} => call.exc = "DataAccessError"
        /\ call.fault \notin {"connect", "cursor"} =>
              /\ call.exc = (IF call.ref = <<>> THEN "EmptyReference"
                             ELSE "InvalidFormat")
              /\ connection # None
              /\ connection \in openConns
              /\ cursor = connection
              /\ cursor \in openCursors

C18_Witness ==
    /\ call.op = "get_verses"
    /\ call.ref = <<>>
    /\ call.before.connection = None
    /\ call.exc = "EmptyReference"
    /\ connection = 1
    /\ cursor = 1
    /\ openConns = {1}

\* The connection error takes the place of the ValueError.
C18_WitnessConnectFails ==
    /\ call.op = "get_verses"
    /\ call.ref = <<"J", "o", "h", "n">>
    /\ call.before.connection = None
    /\ call.fault = "connect"
    /\ call.exc = "DataAccessError"
    /\ connection = None

\* The chapter and verse tokens the parser cuts the reference's citation
\* into.
TokensOf(ref) ==
    {CitationTokens(Strip(RSplitLast(ref, " ")[2]))[f] :
        f \in {"start_chapter", "start_verse", "end_chapter", "end_verse"}}

\* One or more digits.
PlainDecimal(tok) == tok # <<>> /\ \A i \in DOMAIN tok : IsDigit(tok[i])

\* A decimal integer: digits, after an optional sign.
DecimalInteger(tok) ==
    \/ PlainDecimal(tok)
    \/ tok # <<>> /\ tok[1] \in {"+", "-"} /\ PlainDecimal(Tail(tok))

\* A token int() cannot accept: empty, holding a character that is no
\* digit, sign or underscore, or holding a sign after its first character.
Hopeless(tok) ==
    \/ tok = <<>>
    \/ \E i \in DOMAIN tok : ~IsDigit(tok[i]) /\ tok[i] \notin {"+", "-", "_"}
    \/ \E i \in DOMAIN tok : i > 1 /\ tok[i] \in {"+", "-"}
    \/ \A i \in DOMAIN tok : ~IsDigit(tok[i])

\* The call got to the citation: the reference has a space, the book
\* token a row in the index, and the store answered the lookup.
ReachedCitation ==
    /\ call.op \in {"_parse_reference", "get_verses"}
    /\ Contains(call.ref, " ")
    /\ BookToken(call.ref) \in DOMAIN BookIndex
    /\ Sent("book") # {}
    /\ call.fault \notin {"execute_book", "fetch_book"}

DigitsOnly(key) == \A i \in DOMAIN key : IsDigit(key[i])

\* C19 as written: whenever a chapter or verse token is no decimal integer
\* the parser returns no key pair but fails with the ValueError, and a
\* returned key pair consists of digits only.
C19_KeysDigitsOnly ==
    ReachedCitation =>
        /\ (\E tok \in TokensOf(call.ref) : ~DecimalInteger(tok)) =>
              call.exc = "InvalidLiteral"
        /\ DigitsOnly(call.start_ref) /\ DigitsOnly(call.end_ref)

\* C19, amended: whenever int() rejects a chapter or verse token (an empty
\* token, one with a letter, a ':' or an inner '-' as in "3:16-4:3-5"),
\* _parse_reference returns no key pair: it fails with the ValueError,
\* which get_verses propagates, after the book lookup and before the
\* translation lookup and the range query; tokens of digits only are
\* never rejected and give keys of digits only.  int() also accepts a
\* sign and single underscores between digits, so a returned key is made
\* of digits and '-' signs: "John 3:16--5" has the end verse token "-5" and
\* returns the end key "43003-05", and "Jude 1_3" returns "65001013".
C19_RejectedTokens ==
    ReachedCitation =>
        /\ (\E tok \in TokensOf(call.ref) : Hopeless(tok)) =>
              /\ call.exc = "InvalidLiteral"
              /\ call.sent = <<BookQuery(BookToken(call.ref))>>
              /\ call.start_ref = <<>> /\ call.end_ref = <<>>
              /\ call.rows = {}
        /\ call.exc = "InvalidLiteral" =>
              /\ Kinds = <<"book">>
              /\ \E tok \in TokensOf(call.ref) : ~PlainDecimal(tok)
        /\ (call.op = "_parse_reference"
            /\ \A tok \in TokensOf(call.ref) : PlainDecimal(tok)) =>
              /\ call.exc = "none"
              /\ DigitsOnly(call.start_ref) /\ DigitsOnly(call.end_ref)
        /\ \A i \in DOMAIN call.start_ref :
              IsDigit(call.start_ref[i]) \/ call.start_ref[i] = "-"
        /\ \A i \in DOMAIN call.end_ref :
              IsDigit(call.end_ref[i]) \/ call.end_ref[i] = "-"
        /\ (call.op = "_parse_reference"
            /\ call.ref = <<"J", "o", "h", "n", " ", "3", ":", "1", "6", "-", "-", "5">>) =>
              /\ call.exc = "none"
              /\ call.start_ref = <<"4", "3", "0", "0", "3", "0", "1", "6">>
              /\ call.end_ref = <<"4", "3", "0", "0", "3", "-", "0", "5">>
        /\ (call.op = "_parse_reference"
            /\ call.ref = <<"J", "u", "d", "e", " ", "1", "_", "3">>) =>
              /\ call.exc = "none"
              /\ call.start_ref = <<"6", "5", "0", "0", "1", "0", "1", "3">>

C19_Witness ==
    /\ call.op = "get_verses"
    /\ call.ref = <<"J", "o", "h", "n", " ", "3", ":", "1", "6", "-",
                    "4", ":", "3", "-", "5">>
    /\ call.translation = <<"k", "j", "v">>
    /\ call.exc = "InvalidLiteral"
    /\ Kinds = <<"book">>

\* get_verses sends the signed key to the store.
C19_WitnessSignedKey ==
    /\ call.op = "get_verses"
    /\ call.ref = <<"J", "o", "h", "n", " ", "3", ":", "1", "6", "-", "-", "5">>
    /\ call.exc = "none"
    /\ call.end_ref = <<"4", "3", "0", "0", "3", "-", "0", "5">>
    /\ Kinds = <<"book", "translation", "range">>

====
